---- MODULE Spec2Model ----
(***************************************************************************)
(* The file-backed Express backend of src/backend.js: the JSON store       *)
(* data/db.json with its two arrays, employees and alerts, and the request *)
(* handlers that read it whole, change their private copy and write it     *)
(* back whole.                                                             *)
(*                                                                         *)
(* A handler runs on the event loop until it awaits the file system, so    *)
(* every action below is one such run: the synchronous prologue of a       *)
(* handler (Start), or the completion of one readDb / writeDb together     *)
(* with the code that follows it up to the next await or the response.     *)
(* Two handlers are kept in flight at once, which is enough to interleave  *)
(* the read-modify-write of one with that of the other.  fs.readFile and   *)
(* fs.writeFile are taken to succeed and to take effect at one instant.    *)
(*                                                                         *)
(* JSON values are represented by their text: a string by itself, null by  *)
(* "null", false by "false", a missing property by "undefined".  An object *)
(* is a function from property names to values, so that the object spread  *)
(* of the PATCH handler is function override.                              *)
(***************************************************************************)
EXTENDS Integers, Sequences, FiniteSets, TLC

\* Bounds of the exploration.
MaxReqs == 3
MaxTime == 1

Procs == {"h1", "h2"}

Undefined == "undefined"
Null == "null"

\* The values Math.random().toString(36).slice(2, 8) is drawn from.
RandomSuffixes == {"k3f9zq", "m0c7xw"}

\* file     the content of data/db.json
\* now      the millisecond Date.now() and new Date() return
\* served   the number of requests accepted so far
\* pc       where each handler stands: idle, at one of its awaits, or done
\* req      the request each handler serves
\* seen     the store each handler got from its readDb
\* db       each handler's own copy of the store, as it last changed it
\* resp     the response each handler sent
\* acked    the _id values that a 201 response has announced to a client
\* mustSee  acked as it was when each GET /employees arrived
VARIABLES file, now, served, pc, req, seen, db, resp, acked, mustSee

vars == <<file, now, served, pc, req, seen, db, resp, acked, mustSee>>

----------------------------------------------------------------------------
(* JavaScript helpers *)

\* A value that an `if (v)` or `v || d` treats as false.
Falsy(v) == v \in {Undefined, Null, "", "false"}

\* obj.k, undefined when the property is missing.
Field(obj, k) == IF k \in DOMAIN obj THEN obj[k] ELSE Undefined

\* A destructured parameter with a default: the default applies to undefined only.
Default(v, d) == IF v = Undefined THEN d ELSE v

\* { ...a, ...b }
Spread(a, b) == [k \in DOMAIN a \cup DOMAIN b |-> IF k \in DOMAIN b THEN b[k] ELSE a[k]]

\* String.prototype.toLowerCase on the strings of the model.
toLowerCase(s) == IF s = "A@x.com" THEN "a@x.com" ELSE s

\* new Date().toISOString() at millisecond t of the epoch.
toISOString(t) == "1970-01-01T00:00:00.00" \o ToString(t) \o "Z"

NaN == -1

\* new Date(s).valueOf(): the millisecond a date string denotes, NaN when it denotes none.
DateParse(s) ==
    IF \E t \in 0..MaxTime : toISOString(t) = s
    THEN CHOOSE t \in 0..MaxTime : toISOString(t) = s
    ELSE NaN

hashPassword(password) == "sha256:" \o password

makeId(prefix, t, rnd) == prefix \o ToString(t) \o rnd

\* The first of a set of array positions (1-based); 0 when there is none.
FirstOf(positions) ==
    IF positions = {} THEN 0 ELSE CHOOSE i \in positions : \A j \in positions : i <= j

\* The comparison without the case folding.
EmailMatchesExactly(e, email) ==
    /\ Field(e, "email") \notin {Undefined, Null}
    /\ Field(e, "email") = email

\* e.email?.toLowerCase() === email.toLowerCase()
EmailMatches(e, email) ==
    /\ Field(e, "email") \notin {Undefined, Null}
    /\ toLowerCase(Field(e, "email")) = toLowerCase(email)

\* e._id === id || e.empId === id
IdMatches(e, id) == Field(e, "_id") = id \/ Field(e, "empId") = id

\* employees.find(e => e.email?.toLowerCase() === email.toLowerCase()), as a position
FindByEmail(employees, email) ==
    FirstOf({i \in DOMAIN employees : EmailMatches(employees[i], email)})

\* employees.findIndex(e => e._id === id || e.empId === id)
FindById(employees, id) ==
    FirstOf({i \in DOMAIN employees : IdMatches(employees[i], id)})

----------------------------------------------------------------------------
(* The store *)

EmptyDb == [employees |-> <<>>, alerts |-> <<>>]

NoReq == [op |-> "none"]
NoResp == [status |-> 0, kind |-> "none", body |-> <<>>]

Json(status, body) == [status |-> status, kind |-> "object", body |-> body]
JsonArray(status, arr) == [status |-> status, kind |-> "array", body |-> arr]

Init ==
    /\ file = EmptyDb
    /\ now = 0
    /\ served = 0
    /\ pc = [p \in Procs |-> "idle"]
    /\ req = [p \in Procs |-> NoReq]
    /\ seen = [p \in Procs |-> EmptyDb]
    /\ db = [p \in Procs |-> EmptyDb]
    /\ resp = [p \in Procs |-> NoResp]
    /\ acked = {}
    /\ mustSee = [p \in Procs |-> {}]

\* The clock of Date.now() and new Date().
Tick ==
    /\ now < MaxTime
    /\ now' = now + 1
    /\ UNCHANGED <<file, served, pc, req, seen, db, resp, acked, mustSee>>

\* A handler slot is free before its first request and after its response.
Free(p) == pc[p] \in {"idle", "done"}

\* The next request goes to the first free slot.
Accept(p, r) ==
    /\ Free(p)
    /\ p = "h1" \/ ~Free("h1")
    /\ served < MaxReqs
    /\ served' = served + 1
    /\ req' = [req EXCEPT ![p] = r]
    /\ seen' = [seen EXCEPT ![p] = EmptyDb]
    /\ db' = [db EXCEPT ![p] = EmptyDb]
    /\ mustSee' = [mustSee EXCEPT ![p] = IF r.op = "GET /employees" THEN acked ELSE {}]
    /\ UNCHANGED <<file, now, acked>>

Respond(p, r) ==
    /\ resp' = [resp EXCEPT ![p] = r]
    /\ pc' = [pc EXCEPT ![p] = "done"]

Goto(p, label) ==
    /\ resp' = [resp EXCEPT ![p] = NoResp]
    /\ pc' = [pc EXCEPT ![p] = label]

\* const db = await readDb()
ReadDb(p) ==
    /\ seen' = [seen EXCEPT ![p] = file]
    /\ UNCHANGED <<file, served, req, mustSee>>

\* await writeDb(db)
WriteDb(p) ==
    /\ file' = db[p]
    /\ UNCHANGED <<served, req, seen, mustSee>>

----------------------------------------------------------------------------
(* POST /register *)

RegisterBodies ==
    {[name |-> "A", email |-> "a@x.com", password |-> "p", empId |-> "E1"],
     [name |-> "A", email |-> "A@x.com", password |-> "q", empId |-> "E1"],
     [email |-> "b@x.com", password |-> "", empId |-> "E1"]}

\* The errors array of the handler's presence checks.
RegisterErrors(body) ==
    (IF Falsy(Field(body, "name")) THEN <<"name required">> ELSE <<>>)
        \o (IF Falsy(Field(body, "email")) THEN <<"email required">> ELSE <<>>)
        \o (IF Falsy(Field(body, "password")) THEN <<"password required">> ELSE <<>>)
        \o (IF Falsy(Field(body, "empId")) THEN <<"empId required">> ELSE <<>>)

\* The employee object POST /register builds.
RegisteredEmployee(body, uid, t) ==
    [_id |-> uid,
     name |-> body.name,
     email |-> body.email,
     role |-> Default(Field(body, "role"), "deport-employee"),
     empId |-> body.empId,
     passwordHash |-> hashPassword(body.password),
     createdAt |-> toISOString(t),
     lastLogin |-> Null,
     lastLogout |-> Null,
     clockIn |-> Null,
     clockOut |-> Null,
     status |-> "safe",
     alarmTriggered |-> "false"]

\* The user object of the 201 response (no password hash).
RegisteredUser(e) ==
    [_id |-> e._id, email |-> e.email, role |-> e.role, empId |-> e.empId, name |-> e.name]

EmailTaken == Json(409, [success |-> FALSE, message |-> "Email already registered"])

RegisterStart(p) ==
    \E body \in RegisterBodies :
        /\ Accept(p, [op |-> "POST /register", body |-> body])
        /\ IF RegisterErrors(body) # <<>>
           THEN Respond(p, Json(400, [success |-> FALSE, errors |-> RegisterErrors(body)]))
           ELSE Goto(p, "register_read")

RegisterRead(p) ==
    /\ pc[p] = "register_read"
    /\ ReadDb(p)
    /\ IF FindByEmail(file.employees, req[p].body.email) # 0
       THEN /\ Respond(p, EmailTaken)
            /\ db' = [db EXCEPT ![p] = file]
       ELSE \E rnd \in RandomSuffixes :
            /\ db' = [db EXCEPT ![p] =
                   [file EXCEPT !.employees =
                       Append(@, RegisteredEmployee(req[p].body, makeId("u_", now, rnd), now))]]
            /\ Goto(p, "register_write")
    /\ UNCHANGED <<now, acked>>

RegisterWrite(p) ==
    /\ pc[p] = "register_write"
    /\ WriteDb(p)
    /\ LET employee == db[p].employees[Len(db[p].employees)]
       IN /\ Respond(p, Json(201, [success |-> TRUE, user |-> RegisteredUser(employee)]))
          /\ acked' = acked \cup {employee._id}
    /\ UNCHANGED <<now, db>>

----------------------------------------------------------------------------
(* POST /login *)

LoginBodies ==
    {[email |-> "A@x.com", password |-> "p"],
     [email |-> "a@x.com", password |-> "q"],
     [email |-> "b@x.com", password |-> "p"],
     [email |-> "a@x.com"]}

InvalidCredentials == Json(400, [success |-> FALSE, message |-> "Invalid credentials"])

\* A check that a hash is stored, not that it is the password's.
PasswordStored(user, password) == Field(user, "passwordHash") # Undefined

\* user.passwordHash !== hashPassword(password), negated
PasswordMatches(user, password) == Field(user, "passwordHash") = hashPassword(password)

\* The user object of the 200 response.
LoggedInUser(e) ==
    [_id |-> Field(e, "_id"), email |-> Field(e, "email"), role |-> Field(e, "role"),
     empId |-> Field(e, "empId"), name |-> Field(e, "name"), lastLogin |-> Field(e, "lastLogin")]

LoginStart(p) ==
    \E body \in LoginBodies :
        /\ Accept(p, [op |-> "POST /login", body |-> body])
        /\ IF Falsy(Field(body, "email")) \/ Falsy(Field(body, "password"))
           THEN Respond(p, Json(400, [success |-> FALSE, message |-> "Email and password required"]))
           ELSE Goto(p, "login_read")

LoginRead(p) ==
    /\ pc[p] = "login_read"
    /\ ReadDb(p)
    /\ LET i == FindByEmail(file.employees, req[p].body.email)
       IN IF i = 0 \/ ~PasswordMatches(file.employees[i], req[p].body.password)
          THEN /\ Respond(p, InvalidCredentials)
               /\ db' = [db EXCEPT ![p] = file]
          ELSE /\ db' = [db EXCEPT ![p] =
                         [file EXCEPT !.employees[i] =
                             Spread(@, [lastLogin |-> toISOString(now)])]]
               /\ Goto(p, "login_write")
    /\ UNCHANGED <<now, acked>>

LoginWrite(p) ==
    /\ pc[p] = "login_write"
    /\ WriteDb(p)
    /\ LET i == FindByEmail(db[p].employees, req[p].body.email)
       IN Respond(p, Json(200, [success |-> TRUE, user |-> LoggedInUser(db[p].employees[i])]))
    /\ UNCHANGED <<now, db, acked>>

----------------------------------------------------------------------------
(* GET /employees *)

GetEmployeesStart(p) ==
    /\ Accept(p, [op |-> "GET /employees"])
    /\ Goto(p, "employees_read")

GetEmployeesRead(p) ==
    /\ pc[p] = "employees_read"
    /\ ReadDb(p)
    /\ db' = [db EXCEPT ![p] = file]
    /\ Respond(p, JsonArray(200, file.employees))
    /\ UNCHANGED <<now, acked>>

----------------------------------------------------------------------------
(* POST /employees *)

EmployeeBodies ==
    {[name |-> "A", email |-> "A@x.com", empId |-> "E2"],
     [name |-> "A", email |-> "a@x.com"]}

\* The employee object POST /employees builds.
CreatedEmployee(body, uid, t) ==
    [_id |-> uid,
     name |-> body.name,
     email |-> body.email,
     role |-> Default(Field(body, "role"), "employee"),
     empId |-> body.empId,
     createdAt |-> toISOString(t),
     lastLogin |-> Null,
     lastLogout |-> Null,
     clockIn |-> Null,
     clockOut |-> Null,
     status |-> "safe",
     alarmTriggered |-> "false"]

PostEmployeesStart(p) ==
    \E body \in EmployeeBodies :
        /\ Accept(p, [op |-> "POST /employees", body |-> body])
        /\ IF Falsy(Field(body, "name")) \/ Falsy(Field(body, "email")) \/ Falsy(Field(body, "empId"))
           THEN Respond(p, Json(400, [success |-> FALSE, message |-> "name,email,empId required"]))
           ELSE Goto(p, "create_read")

PostEmployeesRead(p) ==
    /\ pc[p] = "create_read"
    /\ ReadDb(p)
    /\ \E rnd \in RandomSuffixes :
           db' = [db EXCEPT ![p] =
                     [file EXCEPT !.employees =
                         Append(@, CreatedEmployee(req[p].body, makeId("u_", now, rnd), now))]]
    /\ Goto(p, "create_write")
    /\ UNCHANGED <<now, acked>>

PostEmployeesWrite(p) ==
    /\ pc[p] = "create_write"
    /\ WriteDb(p)
    /\ LET employee == db[p].employees[Len(db[p].employees)]
       IN /\ Respond(p, Json(201, employee))
          /\ acked' = acked \cup {employee._id}
    /\ UNCHANGED <<now, db>>

----------------------------------------------------------------------------
(* PATCH /employees/:id *)

PatchBodies ==
    {[status |-> "leak"],
     [status |-> "leak", location |-> "dock"],
     [status |-> "leak", location |-> ""],
     [location |-> "dock"],
     [_id |-> "u_x", status |-> "safe"]}

\* The identifiers a client addresses an employee by: an employee code, or an
\* _id that the server handed out.
PatchIds == {"E1"} \cup {Field(file.employees[i], "_id") : i \in DOMAIN file.employees}

\* The 404 body without the envelope's success property.
NotFoundBare == Json(404, [message |-> "Employee not found"])

NotFound == Json(404, [success |-> FALSE, message |-> "Employee not found"])

\* { ...db.employees[idx], ...patch, updatedAt: new Date().toISOString() }
Patched(employee, patch, t) == Spread(Spread(employee, patch), [updatedAt |-> toISOString(t)])

\* The test on the merged record instead of the patch.
RaisesAlertOnMerged(patch, merged) == Field(merged, "status") = "leak"

\* if (patch.status === "leak")
RaisesAlert(patch, merged) == Field(patch, "status") = "leak"

\* The location as given, without the default.
LocationAsGiven(location) == location

\* patch.location || "unknown"
LocationOr(location) == IF Falsy(location) THEN "unknown" ELSE location

\* The alert with the identifier of the route in place of the employee's _id.
LeakAlertForRouteId(employee, id, patch, aid, t) ==
    [_id |-> aid,
     employeeId |-> id,
     type |-> "leak",
     status |-> "leak",
     location |-> LocationOr(Field(patch, "location")),
     timestamp |-> toISOString(t)]

\* The alert object the PATCH handler builds.
LeakAlert(employee, id, patch, aid, t) ==
    [_id |-> aid,
     employeeId |-> Field(employee, "_id"),
     type |-> "leak",
     status |-> "leak",
     location |-> LocationOr(Field(patch, "location")),
     timestamp |-> toISOString(t)]

PatchStart(p) ==
    \E id \in PatchIds, patch \in PatchBodies :
        /\ Accept(p, [op |-> "PATCH /employees/:id", id |-> id, body |-> patch])
        /\ Goto(p, "patch_read")

PatchRead(p) ==
    /\ pc[p] = "patch_read"
    /\ ReadDb(p)
    /\ LET idx == FindById(file.employees, req[p].id)
       IN IF idx = 0
          THEN /\ Respond(p, NotFound)
               /\ db' = [db EXCEPT ![p] = file]
          ELSE /\ db' = [db EXCEPT ![p] =
                         [file EXCEPT !.employees[idx] = Patched(@, req[p].body, now)]]
               /\ Goto(p, "patch_write")
    /\ UNCHANGED <<now, acked>>

\* idx of the handler, recovered from the copy it read.
PatchIdx(p) == FindById(seen[p].employees, req[p].id)

PatchWrite(p) ==
    /\ pc[p] = "patch_write"
    /\ WriteDb(p)
    /\ IF RaisesAlert(req[p].body, db[p].employees[PatchIdx(p)])
       THEN \E rnd \in RandomSuffixes :
            /\ db' = [db EXCEPT ![p].alerts =
                         Append(@, LeakAlert(db[p].employees[PatchIdx(p)], req[p].id,
                                             req[p].body, makeId("a_", now, rnd), now))]
            /\ Goto(p, "patch_alert_write")
       ELSE /\ Respond(p, Json(200, [success |-> TRUE, employee |-> db[p].employees[PatchIdx(p)]]))
            /\ UNCHANGED db
    /\ UNCHANGED <<now, acked>>

PatchAlertWrite(p) ==
    /\ pc[p] = "patch_alert_write"
    /\ WriteDb(p)
    /\ Respond(p, Json(200, [success |-> TRUE, employee |-> db[p].employees[PatchIdx(p)]]))
    /\ UNCHANGED <<now, db, acked>>

----------------------------------------------------------------------------
(* GET /alerts *)

SinceValues == {Undefined, "soon"} \cup {toISOString(t) : t \in 1..MaxTime}

\* The comparison with > in place of >=.
StrictlyAfter(timestamp, sinceDt) == DateParse(timestamp) > sinceDt

\* alerts.filter(a => new Date(a.timestamp) >= sinceDt)
NotBefore(timestamp, sinceDt) == DateParse(timestamp) >= sinceDt

AlertsSince(alerts, since) ==
    IF ~Falsy(since) /\ DateParse(since) # NaN
    THEN SelectSeq(alerts, LAMBDA a : NotBefore(a.timestamp, DateParse(since)))
    ELSE alerts

GetAlertsStart(p) ==
    \E since \in SinceValues :
        /\ Accept(p, [op |-> "GET /alerts", since |-> since])
        /\ Goto(p, "alerts_read")

GetAlertsRead(p) ==
    /\ pc[p] = "alerts_read"
    /\ ReadDb(p)
    /\ db' = [db EXCEPT ![p] = file]
    /\ Respond(p, JsonArray(200, AlertsSince(file.alerts, req[p].since)))
    /\ UNCHANGED <<now, acked>>

----------------------------------------------------------------------------
(* POST /alerts *)

AlertBodies ==
    {[employeeId |-> "ghost"], [location |-> "dock"]}
        \cup {[employeeId |-> Field(file.employees[i], "_id"), location |-> "dock"] :
                 i \in DOMAIN file.employees}

\* The alert object POST /alerts builds.
PostedAlert(body, aid, t) ==
    [_id |-> aid,
     employeeId |-> body.employeeId,
     type |-> Default(Field(body, "type"), "leak"),
     location |-> LocationOr(Field(body, "location")),
     timestamp |-> toISOString(t)]

PostAlertsStart(p) ==
    \E body \in AlertBodies :
        /\ Accept(p, [op |-> "POST /alerts", body |-> body])
        /\ IF Falsy(Field(body, "employeeId"))
           THEN Respond(p, Json(400, [success |-> FALSE, message |-> "employeeId required"]))
           ELSE Goto(p, "alert_read")

PostAlertsRead(p) ==
    /\ pc[p] = "alert_read"
    /\ ReadDb(p)
    /\ \E rnd \in RandomSuffixes :
           db' = [db EXCEPT ![p] =
                     [file EXCEPT !.alerts =
                         Append(@, PostedAlert(req[p].body, makeId("a_", now, rnd), now))]]
    /\ Goto(p, "alert_write")
    /\ UNCHANGED <<now, acked>>

PostAlertsWrite(p) ==
    /\ pc[p] = "alert_write"
    /\ WriteDb(p)
    /\ Respond(p, Json(201, db[p].alerts[Len(db[p].alerts)]))
    /\ UNCHANGED <<now, db, acked>>

----------------------------------------------------------------------------
(* POST /logout *)

Logout(p) ==
    /\ Accept(p, [op |-> "POST /logout"])
    /\ Respond(p, Json(200, [success |-> TRUE]))

----------------------------------------------------------------------------

Next ==
    \/ Tick
    \/ \E p \in Procs :
        \/ RegisterStart(p)
        \/ RegisterRead(p)
        \/ RegisterWrite(p)
        \/ LoginStart(p)
        \/ LoginRead(p)
        \/ LoginWrite(p)
        \/ GetEmployeesStart(p)
        \/ GetEmployeesRead(p)
        \/ PostEmployeesStart(p)
        \/ PostEmployeesRead(p)
        \/ PostEmployeesWrite(p)
        \/ PatchStart(p)
        \/ PatchRead(p)
        \/ PatchWrite(p)
        \/ PatchAlertWrite(p)
        \/ GetAlertsStart(p)
        \/ GetAlertsRead(p)
        \/ PostAlertsStart(p)
        \/ PostAlertsRead(p)
        \/ PostAlertsWrite(p)
        \/ Logout(p)

Spec == Init /\ [][Next]_vars

----------------------------------------------------------------------------
(* Vocabulary of the properties *)

\* Handler p has sent the response of a request to endpoint op.
Answered(p, op) == pc[p] = "done" /\ req[p].op = op

\* Two emails are equal when compared case-insensitively.
SameEmail(a, b) == toLowerCase(a) = toLowerCase(b)

\* The positions of the employees of a store that carry the email.
Holding(store, email) ==
    {i \in DOMAIN store.employees : SameEmail(Field(store.employees[i], "email"), email)}

\* The _id values of the employees of a store.
EmployeeIds(store) == {Field(store.employees[i], "_id") : i \in DOMAIN store.employees}

Last(seq) == seq[Len(seq)]

----------------------------------------------------------------------------
(* C1 *)

\* C1: in every reachable state of the store no two stored employees have
\* emails that are equal when compared case-insensitively.
C1_EmailsUnique ==
    \A i, j \in DOMAIN file.employees :
        i # j => ~SameEmail(Field(file.employees[i], "email"), Field(file.employees[j], "email"))

----------------------------------------------------------------------------
(* C2 *)

\* Handlers p and q have both answered a valid POST /register, for the same
\* email up to letter case.
RegisteredSame(p, q) ==
    /\ p # q
    /\ Answered(p, "POST /register") /\ resp[p].status # 400
    /\ Answered(q, "POST /register") /\ resp[q].status # 400
    /\ SameEmail(req[p].body.email, req[q].body.email)

\* C2 as claimed: of two valid POST /register requests with the same email up
\* to letter case, the first issued against a store that does not hold it,
\* exactly one responds 201 and the other 409 and exactly one employee with
\* that email is stored, however their readDb/writeDb steps interleave.
C2_OneCreatedOneConflict ==
    \A p, q \in Procs :
        RegisteredSame(p, q) /\ Holding(seen[p], req[p].body.email) = {}
            => /\ {resp[p].status, resp[q].status} = {201, 409}
               /\ Cardinality(Holding(file, req[p].body.email)) = 1

\* C2 as amended: when the second request reads the store as the first one
\* wrote it, the first responds 201, the second 409, and exactly one employee
\* with that email is stored.
C2_OneAfterTheOther ==
    \A p, q \in Procs :
        RegisteredSame(p, q) /\ Holding(seen[p], req[p].body.email) = {} /\ seen[q] = db[p]
            => /\ resp[p].status = 201
               /\ resp[q].status = 409
               /\ Cardinality(Holding(file, req[p].body.email)) = 1

C2_Witness ==
    \E p, q \in Procs :
        /\ RegisteredSame(p, q)
        /\ Holding(seen[p], req[p].body.email) = {}
        /\ seen[q] = db[p]
        /\ req[p].body.email # req[q].body.email

----------------------------------------------------------------------------
(* C3 *)

\* Handler p completes a PATCH whose body sets status to "leak": the step from
\* its last writeDb to its response.
LeakPatchCompletes(p) ==
    /\ req[p].op = "PATCH /employees/:id"
    /\ Field(req[p].body, "status") = "leak"
    /\ pc[p] # "done" /\ pc'[p] = "done"
    /\ resp'[p].status = 200

\* The store after the step is the alerts the handler read plus one alert for
\* the patched employee, at the given location.
AddsOneAlertAt(p, location) ==
    /\ Len(file'.alerts) = Len(seen[p].alerts) + 1
    /\ SubSeq(file'.alerts, 1, Len(seen[p].alerts)) = seen[p].alerts
    /\ Last(file'.alerts).employeeId = Field(resp'[p].body.employee, "_id")
    /\ Field(resp'[p].body.employee, "_id") \in EmployeeIds(file')
    /\ Last(file'.alerts).location = location

\* C3 as claimed: a PATCH that matches an employee and sets status to "leak"
\* leaves the stored alerts as they were plus one new alert for that employee,
\* whose location is the patch's location, or "unknown" when the patch
\* supplies none.
C3_LeakPatchAddsOneAlert ==
    [][\A p \in Procs :
          LeakPatchCompletes(p) =>
              AddsOneAlertAt(p, IF "location" \in DOMAIN req[p].body
                                THEN req[p].body.location ELSE "unknown")]_vars

\* C3 as amended: the location is "unknown" also when the patch supplies an
\* empty one.
C3_LeakPatchAddsOneAlertOrUnknown ==
    [][\A p \in Procs :
          LeakPatchCompletes(p) =>
              AddsOneAlertAt(p, IF Field(req[p].body, "location") \in {Undefined, ""}
                                THEN "unknown" ELSE req[p].body.location)]_vars

C3_Witness ==
    \E p \in Procs :
        /\ Answered(p, "PATCH /employees/:id") /\ resp[p].status = 200
        /\ req[p].body = [status |-> "leak", location |-> ""]
        /\ file.alerts # <<>> /\ Last(file.alerts).location = "unknown"
        /\ Len(file.alerts) = Len(seen[p].alerts) + 1

----------------------------------------------------------------------------
(* C4 *)

\* C4: once POST /register or POST /employees has responded 201 for an
\* employee, every GET /employees that starts afterwards returns a list
\* containing an employee with that identifier.
C4_CreatedEmployeesListed ==
    \A p \in Procs :
        Answered(p, "GET /employees") =>
            mustSee[p] \subseteq {Field(resp[p].body[i], "_id") : i \in DOMAIN resp[p].body}

----------------------------------------------------------------------------
(* C5 *)

\* The _id values of all records of a store.
StoredIds(store) ==
    [i \in DOMAIN store.employees |-> Field(store.employees[i], "_id")]
        \o [i \in DOMAIN store.alerts |-> store.alerts[i]._id]

\* C5: the identifier (_id) assigned to a record at creation never changes in
\* any later state: the record a PATCH writes back carries the _id of the
\* record it read.
C5_IdsImmutable ==
    [][\A p \in Procs :
          pc[p] = "patch_write" =>
              Field(file'.employees[PatchIdx(p)], "_id")
                  = Field(seen[p].employees[PatchIdx(p)], "_id")]_vars

\* The other half of C5: all stored _id values are pairwise distinct.
C5_IdsDistinct ==
    \A i, j \in DOMAIN StoredIds(file) : i # j => StoredIds(file)[i] # StoredIds(file)[j]

----------------------------------------------------------------------------
(* C6 *)

\* Handler p writes the store with an alert it created.
AlertWritten(p) ==
    /\ pc[p] \in {"alert_write", "patch_alert_write"}
    /\ pc'[p] = "done"

\* C6 as claimed: every alert, created by POST /alerts or by PATCH, has the
\* employeeId of an employee that is stored when the alert is created.
C6_AlertRefersToEmployee ==
    [][\A p \in Procs :
          AlertWritten(p) =>
              Last(file'.alerts).employeeId \in EmployeeIds(file) \cup EmployeeIds(file')]_vars

\* C6 as amended: every alert created by PATCH has the employeeId of an
\* employee of the store written with it.
C6_PatchAlertRefersToEmployee ==
    [][\A p \in Procs :
          AlertWritten(p) /\ req[p].op = "PATCH /employees/:id" =>
              Last(file'.alerts).employeeId \in EmployeeIds(file')]_vars

C6_Witness ==
    \E p \in Procs :
        /\ Answered(p, "PATCH /employees/:id") /\ resp[p].status = 200
        /\ req[p].id = "E1"
        /\ Len(file.alerts) = Len(seen[p].alerts) + 1
        /\ Last(file.alerts).employeeId \in EmployeeIds(file)
        /\ Last(file.alerts).employeeId # req[p].id

----------------------------------------------------------------------------
(* C7 *)

\* The employees of the store handler p read that carry the email and the
\* hash of the password of its login request.
Credentialed(p) ==
    {i \in Holding(seen[p], req[p].body.email) :
        Field(seen[p].employees[i], "passwordHash") = hashPassword(req[p].body.password)}

\* Handler p has answered a POST /login that carried an email and a password.
LoggedIn(p) == Answered(p, "POST /login") /\ DOMAIN req[p].body = {"email", "password"}

\* C7: POST /login responds 200 only when the store holds an employee with
\* that email whose passwordHash is the hash of the password; for an unknown
\* email and for a wrong password it responds with the same 400 "Invalid
\* credentials" body and leaves the store unchanged; on success the matched
\* employee's lastLogin is set and returned.
C7_Login ==
    /\ [](\A p \in Procs :
            LoggedIn(p) =>
                /\ resp[p].status = 200 => Credentialed(p) # {}
                /\ Credentialed(p) = {} =>
                       /\ resp[p] = [status |-> 400, kind |-> "object",
                                     body |-> [success |-> FALSE, message |-> "Invalid credentials"]]
                       /\ db[p] = seen[p]
                /\ resp[p].status = 200 =>
                       /\ DateParse(resp[p].body.user.lastLogin) # NaN
                       /\ \E i \in Credentialed(p) :
                              /\ db[p].employees[i].lastLogin = resp[p].body.user.lastLogin
                              /\ db[p].employees[i]._id = resp[p].body.user._id)
    /\ [][\A p \in Procs :
             /\ pc[p] = "login_read" /\ pc'[p] = "done" => file' = file
             /\ pc[p] = "login_write" /\ pc'[p] = "done" => file' = db[p]]_vars

C7_Witness ==
    \E p, q \in Procs :
        /\ LoggedIn(p) /\ resp[p].status = 200
        /\ LoggedIn(q) /\ resp[q].status = 400
        /\ Holding(seen[q], req[q].body.email) # {}

----------------------------------------------------------------------------
(* C8 *)

\* The response is a JSON object with a boolean success property.
Enveloped(r) ==
    /\ r.kind = "object"
    /\ "success" \in DOMAIN r.body
    /\ r.body.success \in BOOLEAN

----------------------------------------------------------------------------
(* C9 *)

\* Handler p has answered a successful PATCH.
Patched200(p) == Answered(p, "PATCH /employees/:id") /\ resp[p].status = 200

\* The handler wrote an alert: what it wrote last is the alerts it read plus one.
CreatedAlert(p) == Len(db[p].alerts) = Len(seen[p].alerts) + 1

\* C9 as claimed: a successful PATCH creates an alert whenever the employee's
\* status after merging the patch into the stored record equals "leak", also
\* when the patch leaves an already-"leak" status untouched, and none otherwise.
C9_AlertIffMergedLeak ==
    \A p \in Procs :
        Patched200(p) =>
            /\ Len(db[p].alerts) \in {Len(seen[p].alerts), Len(seen[p].alerts) + 1}
            /\ CreatedAlert(p) <=> Field(resp[p].body.employee, "status") = "leak"

\* C9 as amended: a successful PATCH creates an alert exactly when the patch
\* itself sets status to "leak".
C9_AlertIffPatchSetsLeak ==
    \A p \in Procs :
        Patched200(p) =>
            /\ Len(db[p].alerts) \in {Len(seen[p].alerts), Len(seen[p].alerts) + 1}
            /\ CreatedAlert(p) <=> Field(req[p].body, "status") = "leak"

C9_Witness ==
    \E p \in Procs :
        /\ Patched200(p)
        /\ Field(resp[p].body.employee, "status") = "leak"
        /\ "status" \notin DOMAIN req[p].body
        /\ ~CreatedAlert(p)

----------------------------------------------------------------------------
(* C10 *)

\* The positions of the alerts created at or after millisecond t.
Kept(alerts, t) == {i \in DOMAIN alerts : DateParse(alerts[i].timestamp) >= t}

\* out is the alerts at the positions of keep, in the order of the store.
Selects(out, alerts, keep) ==
    /\ Len(out) = Cardinality(keep)
    /\ \A i \in keep : out[Cardinality({k \in keep : k <= i})] = alerts[i]

\* C10: GET /alerts with a parseable since returns exactly the stored alerts
\* whose creation timestamp is greater than or equal to since, in store order;
\* with since omitted or unparseable it returns all stored alerts; in both
\* cases the store is left unchanged.
C10_AlertsSince ==
    /\ [](\A p \in Procs :
            Answered(p, "GET /alerts") =>
                /\ resp[p].status = 200 /\ resp[p].kind = "array"
                /\ IF req[p].since \in {toISOString(t) : t \in 0..MaxTime}
                   THEN Selects(resp[p].body, seen[p].alerts,
                                Kept(seen[p].alerts, DateParse(req[p].since)))
                   ELSE resp[p].body = seen[p].alerts)
    /\ [][\A p \in Procs : pc[p] = "alerts_read" => (file' = file \/ pc'[p] = pc[p])]_vars

C10_Witness ==
    \E p \in Procs :
        /\ Answered(p, "GET /alerts")
        /\ DateParse(req[p].since) # NaN
        /\ resp[p].body # <<>>
        /\ resp[p].body # seen[p].alerts
        /\ \E i \in DOMAIN resp[p].body : resp[p].body[i].timestamp = req[p].since

====
